---- MODULE Spec2Model ----
(***************************************************************************)
(* hedge-fetch: HedgedContext.fetch (the hedged race), the local           *)
(* HedgeBucket and the LatencyTracker.                                     *)
(*                                                                         *)
(* Several races run concurrently against one bucket and one tracker.      *)
(* JavaScript runs each callback to completion and drains the microtask    *)
(* queue before the next event, so one action is one event (a response or  *)
(* a transport failure arriving, a timer firing, a signal being aborted,   *)
(* the awaited canHedge() answer arriving) together with every promise     *)
(* reaction that event triggers.  `await this.bucket.canHedge()` is a      *)
(* suspension point of its own: IHedgeBucket may answer asynchronously.    *)
(*                                                                         *)
(* Token levels are counted in hundredths of a token (0.05 = 5).           *)
(***************************************************************************)
EXTENDS Integers, Sequences, FiniteSets, TLC

\* ------------------------------------------------------------------ bounds
NRaces == 2
Races == 1..NRaces

\* ------------------------------------------------------------- HedgeBucket
maxTokens == 1000
hedgeCost == 100
gainPerRequest == 5

Min(a, b) == IF a <= b THEN a ELSE b
Max(a, b) == IF a >= b THEN a ELSE b

canHedgeMutHalf(t) == 2 * t >= hedgeCost
canHedge(t) == t >= hedgeCost

consumeHedge(t) == t - hedgeCost

incMutNoCap(t) == t + gainPerRequest
inc(t) == Min(maxTokens, t + gainPerRequest)

\* Levels a bucket can hold when the races start: fresh, exactly one token, full.
InitTokens == {0, hedgeCost, maxTokens}

\* ---------------------------------------------------------- LatencyTracker
maxSamples == 100
initialP95 == 150
minFloor == 25

\* currentP95 is the rational num/den in lowest terms (alpha = 0.2 = 1/5).
Rat(n) == [num |-> n, den |-> 1]

RECURSIVE GCD(_, _)
GCD(a, b) == IF b = 0 THEN a ELSE GCD(b, a % b)

Frac(n, d) == [num |-> n \div GCD(n, d), den |-> d \div GCD(n, d)]

\* [...samples].sort((a, b) => a - b): position k holds the sample that has
\* fewer than k samples below it and at least k samples not above it.
SortAsc(s) ==
    [k \in 1..Len(s) |->
        CHOOSE v \in {s[i] : i \in DOMAIN s} :
            /\ Cardinality({i \in DOMAIN s : s[i] < v}) < k
            /\ Cardinality({i \in DOMAIN s : s[i] <= v}) >= k]

calculateRawP95MutNoMinusOne(smp) ==
    LET sorted == SortAsc(smp)
    IN  sorted[((Len(sorted) * 95) \div 100) + 1]

calculateRawP95(smp) ==
    LET sorted == SortAsc(smp)
        index == ((Len(sorted) * 95) \div 100) - 1
    IN  sorted[Max(0, index) + 1]

updateSmoothedP95(smp, p95) ==
    IF Len(smp) < 5 THEN p95
    ELSE LET rawP95 == calculateRawP95(smp)
         IN  IF Len(smp) < 20 THEN Rat(rawP95)
             ELSE Frac(4 * p95.num + rawP95 * p95.den, 5 * p95.den)

addMutEvictNewest(smp, p95, ms) ==
    LET popped == IF Len(smp) >= maxSamples THEN SubSeq(smp, 1, Len(smp) - 1) ELSE smp
        pushed == Append(popped, ms)
    IN  <<pushed, updateSmoothedP95(pushed, p95)>>

\* add(ms): the new <<samples, currentP95>>.
add(smp, p95, ms) ==
    LET shifted == IF Len(smp) >= maxSamples THEN Tail(smp) ELSE smp
        pushed == Append(shifted, ms)
    IN  <<pushed, updateSmoothedP95(pushed, p95)>>

\* Math.round rounds halves up.
getWaitTime(p95) == Max(minFloor, (2 * p95.num + p95.den) \div (2 * p95.den))

Latencies == {10}

\* The tracker used on its own: the windows it starts from and the samples
\* it is then given.
MaxAdds == 5
TrackerLatencies == {50, 100, 200}
TrackerSeeds ==
    { <<>>,
      [i \in 1..4 |-> 100],
      [i \in 1..19 |-> IF i = 19 THEN 200 ELSE 100],
      [i \in 1..99 |-> 100] }

\* The tracker tr after add() of every sample of seed, oldest first: the
\* first half of seed, then, once that tracker is known, the second half
\* (which keeps the evaluation shallow; a window never exceeds maxSamples).
RECURSIVE replayFrom(_, _)
replayFrom(tr, seed) ==
    IF seed = <<>> THEN tr
    ELSE IF Len(seed) = 1 THEN add(tr[1], tr[2], seed[1])
    ELSE LET half == Len(seed) \div 2
             mid == replayFrom(tr, SubSeq(seed, 1, half))
         IN  IF Len(mid[1]) <= maxSamples
             THEN replayFrom(mid, SubSeq(seed, half + 1, Len(seed)))
             ELSE mid

\* A new LatencyTracker after add() of every sample of seed.
replay(seed) == replayFrom(<<(<<>>), Rat(initialP95)>>, seed)

\* ------------------------------------------------------------ the request
\* <<method, forceHedge, autoIdempotency, the caller's Idempotency-Key header>>:
\* a safe method, an unsafe one, an unsafe one forced.
Requests == {<<"GET", FALSE, FALSE, "none">>, <<"POST", FALSE, FALSE, "none">>,
             <<"POST", TRUE, FALSE, "none">>}
\* Every combination of method, forceHedge, autoIdempotency and caller's key.
HeaderRequests == {"GET", "POST", "PUT"} \X BOOLEAN \X BOOLEAN \X {"none", "caller"}
Statuses == {200, 304, 404, 503}
Timeouts == {0, 5000}
SignalChoices == {"none", "live", "aborted"}

isSafeMethod(method) == method \in {"GET", "HEAD", "OPTIONS"}

hedgingAllowedMutAlways(method, forceHedge) == TRUE
hedgingAllowed(method, forceHedge) == isSafeMethod(method) \/ forceHedge

resOkMutAny(status) == status >= 200 /\ status < 500
\* Response.ok
resOk(status) == status >= 200 /\ status <= 299

\* handleResponse returns (rather than throws)
accepted(status) == resOk(status) \/ (status >= 400 /\ status < 500)

Ops == {"fetchPrimary", "fetchSpeculative", "canHedge", "consumeHedge", "inc",
        "add", "onHedge", "onPrimaryWin", "onSpeculativeWin"}

\* Lines 48-52: the Idempotency-Key header after the set-up ("generated" is
\* crypto.randomUUID()).
idempotencyKey(method, forceHedge, autoIdempotency, callerKey) ==
    IF method = "POST" /\ (forceHedge \/ autoIdempotency)
    THEN IF callerKey = "none" /\ autoIdempotency THEN "generated" ELSE callerKey
    ELSE callerKey

NoOpts == [method |-> "GET", forceHedge |-> FALSE, autoIdempotency |-> FALSE,
           idempotencyKey |-> "none", signal |-> "none", timeoutMs |-> 0]
NoneSent == [primary |-> "unsent", speculative |-> "unsent"]
Unsettled(st) == [state |-> st, status |-> 0, error |-> "none"]
Fulfilled(status) == [state |-> "fulfilled", status |-> status, error |-> "none"]
Rejected(err) == [state |-> "rejected", status |-> 0, error |-> err]

VARIABLES
    tokens,              \* HedgeBucket.tokens
    samples,             \* LatencyTracker.samples
    currentP95,          \* LatencyTracker.currentP95
    opts,                \* per race: the options fetch() was called with
    call,                \* per race: "idle", "pending", "returned", "threw"
    result,              \* per race: what fetch() returned or threw
    winner,              \* per race: fastestResponse.label
    isHedged,            \* per race: the marker on the returned response
    primaryRequest,      \* per race: the primaryRequest promise
    speculativeRequest,  \* per race: the speculativeRequest promise
    stillHasBudget,      \* per race: the awaited canHedge() answer
    abortReason,         \* per race: the reason of the composed signal
                         \* (userSignal, globalTimeoutController), once aborted
    primaryAborted,      \* per race: primaryController.signal.aborted
    speculativeAborted,  \* per race: speculativeController.signal.aborted
    timerId,             \* per race: the adaptive-delay timer
    globalTimeoutId,     \* per race: the deadline timer
    waitToHedgeMs,       \* per race: the delay read from the tracker
    sentKey,             \* per race: the Idempotency-Key each dispatched attempt carried
    calls,               \* per race: how often each operation was invoked
    thenLog,             \* per race: what the primary's .then callback did, in order
    okWins,              \* how many races the primary has won with a 2xx status
    lastCall,            \* the bucket's direct caller: its latest call and answer
    added                \* every sample handed to add(), in order

vars == <<tokens, samples, currentP95, opts, call, result, winner, isHedged,
          primaryRequest, speculativeRequest, stillHasBudget, abortReason,
          primaryAborted, speculativeAborted, timerId, globalTimeoutId,
          waitToHedgeMs, sentKey, calls, thenLog, okWins, lastCall, added>>

\* What belongs to the races, and to the tracker.
raceVars == <<opts, call, result, winner, isHedged, primaryRequest,
              speculativeRequest, stillHasBudget, abortReason, primaryAborted,
              speculativeAborted, timerId, globalTimeoutId, waitToHedgeMs,
              sentKey, calls, thenLog, okWins>>
trackerVars == <<samples, currentP95, added>>

\* No fetch() has been called yet.
RacesIdle ==
    /\ opts = [r \in Races |-> NoOpts]
    /\ call = [r \in Races |-> "idle"]
    /\ result = [r \in Races |-> "none"]
    /\ winner = [r \in Races |-> "none"]
    /\ isHedged = [r \in Races |-> FALSE]
    /\ primaryRequest = [r \in Races |-> Unsettled("none")]
    /\ speculativeRequest = [r \in Races |-> Unsettled("absent")]
    /\ stillHasBudget = [r \in Races |-> FALSE]
    /\ abortReason = [r \in Races |-> "none"]
    /\ primaryAborted = [r \in Races |-> FALSE]
    /\ speculativeAborted = [r \in Races |-> FALSE]
    /\ timerId = [r \in Races |-> "unset"]
    /\ globalTimeoutId = [r \in Races |-> "unset"]
    /\ waitToHedgeMs = [r \in Races |-> 0]
    /\ sentKey = [r \in Races |-> NoneSent]
    /\ calls = [r \in Races |-> [o \in Ops |-> 0]]
    /\ thenLog = [r \in Races |-> <<>>]
    /\ okWins = 0

Init ==
    /\ tokens \in InitTokens
    /\ samples = <<>>
    /\ currentP95 = Rat(initialP95)
    /\ added = <<>>
    /\ lastCall = "none"
    /\ RacesIdle

Bump(cl, r, op) == [cl EXCEPT ![r][op] = @ + 1]
\* ------------------------------------------------------------ the race
clearTimerMutKeep(t) == t
\* clearTimeout in the finally block (lines 192-195).
clearTimer(t) == IF t = "armed" THEN "cleared" ELSE t

\* AbortController.abort() on a signal an attempt is in flight under.
abortAttempt(pr, err) == IF pr.state = "inflight" THEN Rejected(err) ELSE pr

isHedgedMarkerMutAlways(label) == TRUE
\* Lines 161-170: the isHedged property is defined on a speculative winner only.
isHedgedMarker(label) == label = "speculative"

\* Lines 146-195: what the awaiting fetch() does once the promises of race r
\* stand at p (primaryRequest) and s (speculativeRequest).  tok, cl, tid, gid
\* are the token level, the call counts and the two timers as the event that
\* led here left them.
afterAwait(r, p, s, tok, cl, tid, gid) ==
    LET finish(c, res, w, h, p2, s2, tok2, cl2, pa, sa) ==
            /\ call' = [call EXCEPT ![r] = c]
            /\ result' = [result EXCEPT ![r] = res]
            /\ winner' = [winner EXCEPT ![r] = w]
            /\ isHedged' = [isHedged EXCEPT ![r] = h]
            /\ primaryRequest' = [primaryRequest EXCEPT ![r] = p2]
            /\ speculativeRequest' = [speculativeRequest EXCEPT ![r] = s2]
            /\ tokens' = tok2
            /\ calls' = cl2
            /\ primaryAborted' = [primaryAborted EXCEPT ![r] = pa]
            /\ speculativeAborted' = [speculativeAborted EXCEPT ![r] = sa]
            /\ timerId' = [timerId EXCEPT ![r] = clearTimer(tid)]
            /\ globalTimeoutId' = [globalTimeoutId EXCEPT ![r] = clearTimer(gid)]
        stay ==
            /\ call' = call
            /\ result' = result
            /\ winner' = winner
            /\ isHedged' = isHedged
            /\ primaryRequest' = [primaryRequest EXCEPT ![r] = p]
            /\ speculativeRequest' = [speculativeRequest EXCEPT ![r] = s]
            /\ tokens' = tok
            /\ calls' = cl
            /\ primaryAborted' = primaryAborted
            /\ speculativeAborted' = speculativeAborted
            /\ timerId' = [timerId EXCEPT ![r] = tid]
            /\ globalTimeoutId' = [globalTimeoutId EXCEPT ![r] = gid]
        \* the catch block: both controllers abort, the error is rethrown
        \* unless it is Promise.any's AggregateError
        catch(err, w, h, p2, s2, tok2, cl2) ==
            finish("threw",
                   IF err = "AggregateError" THEN "ServiceUnavailable" ELSE err,
                   w, h, abortAttempt(p2, "AbortError"), abortAttempt(s2, "AbortError"),
                   tok2, cl2, TRUE, TRUE)
    IN  /\ okWins' = IF call[r] = "pending" /\ p.state = "fulfilled" /\ resOk(p.status)
                      THEN okWins + 1 ELSE okWins
        /\ IF call[r] # "pending" THEN stay
           ELSE IF p.state = "fulfilled" THEN
               \* fastestResponse.label === 'primary'
               LET rewarded == resOk(p.status)
                   tok2 == IF rewarded THEN inc(tok) ELSE tok
                   cl2 == Bump(IF rewarded THEN Bump(cl, r, "inc") ELSE cl, r, "onPrimaryWin")
                   s2 == abortAttempt(s, "AbortError")
               IN  \E hookThrows \in BOOLEAN :
                       IF hookThrows
                       THEN catch("hookError", "primary", isHedgedMarker("primary"), p, s2, tok2, cl2)
                       ELSE finish("returned", "primary", "primary",
                                   isHedgedMarker("primary"), p, s2,
                                   tok2, cl2, primaryAborted[r], TRUE)
           ELSE IF s.state = "fulfilled" THEN
               \* fastestResponse.label === 'speculative'
               LET cl2 == Bump(cl, r, "onSpeculativeWin")
                   p2 == abortAttempt(p, "AbortError")
               IN  \E hookThrows \in BOOLEAN :
                       IF hookThrows
                       THEN catch("hookError", "speculative", isHedgedMarker("speculative"),
                                  p2, s, tok, cl2)
                       ELSE finish("returned", "speculative", "speculative",
                                   isHedgedMarker("speculative"), p2, s,
                                   tok, cl2, TRUE, speculativeAborted[r])
           ELSE IF p.state = "rejected" /\ s.state = "absent" THEN
               \* await primaryRequest rejects with the primary's own error
               catch(p.error, "none", FALSE, p, s, tok, cl)
           ELSE IF p.state = "rejected" /\ s.state = "rejected" THEN
               \* Promise.any rejects once every promise has rejected
               catch("AggregateError", "none", FALSE, p, s, tok, cl)
           ELSE stay

\* Lines 124-127: the speculative branch wakes and asks the bucket.
wake(r, s, tok, cl) ==
    IF s.state = "waiting"
    THEN <<Unsettled("awaitBudget"), canHedge(tok), Bump(cl, r, "canHedge")>>
    ELSE <<s, stillHasBudget[r], cl>>

primaryRejectsMutNoWake(r, err, s, cl, tid, gid) ==
    /\ stillHasBudget' = stillHasBudget
    /\ afterAwait(r, Rejected(err), s, tokens, cl, tid, gid)

\* Lines 106-110 and what follows: the primary rejects with err, the catch
\* resolves failFastSignal, and the race looks at its promises again.
primaryRejects(r, err, s, cl, tid, gid) ==
    LET w == wake(r, s, tokens, cl)
    IN  /\ stillHasBudget' = [stillHasBudget EXCEPT ![r] = w[2]]
        /\ afterAwait(r, Rejected(err), w[1], tokens, w[3], tid, gid)

\* Line 40: userSignal && userSignal.aborted
preAbortedMutIgnored(signal) == FALSE
preAborted(signal) == signal = "aborted"

\* Lines 28-144: fetch() is called with one of the requests reqs, one of the
\* caller's signals and one of the timeouts.
StartFrom(r, reqs, signals, timeouts) ==
    /\ call[r] = "idle"
    /\ \E req \in reqs, signal \in signals, timeoutMs \in timeouts :
        LET method == req[1]
            forceHedge == req[2]
            o == [method |-> method, forceHedge |-> forceHedge,
                  autoIdempotency |-> req[3], idempotencyKey |-> req[4],
                  signal |-> signal, timeoutMs |-> timeoutMs]
            key == idempotencyKey(method, forceHedge, req[3], req[4])
            hedge == hedgingAllowed(method, forceHedge)
        IN  /\ opts' = [opts EXCEPT ![r] = o]
            /\ IF preAborted(signal)
               THEN \* line 40: throw userSignal.reason
                    /\ call' = [call EXCEPT ![r] = "threw"]
                    /\ result' = [result EXCEPT ![r] = "userReason"]
                    /\ UNCHANGED <<tokens, lastCall, thenLog, okWins, trackerVars, winner, isHedged,
                                   primaryRequest, speculativeRequest, stillHasBudget,
                                   abortReason, primaryAborted, speculativeAborted,
                                   timerId, globalTimeoutId, waitToHedgeMs, sentKey,
                                   calls>>
               ELSE /\ call' = [call EXCEPT ![r] = "pending"]
                    /\ waitToHedgeMs' = [waitToHedgeMs EXCEPT ![r] = getWaitTime(currentP95)]
                    /\ globalTimeoutId' = [globalTimeoutId EXCEPT
                                             ![r] = IF timeoutMs # 0 THEN "armed" ELSE "unset"]
                    /\ primaryRequest' = [primaryRequest EXCEPT ![r] = Unsettled("inflight")]
                    /\ calls' = Bump(calls, r, "fetchPrimary")
                    /\ sentKey' = [sentKey EXCEPT ![r].primary = key]
                    /\ speculativeRequest' = [speculativeRequest EXCEPT
                                                ![r] = Unsettled(IF hedge THEN "waiting" ELSE "absent")]
                    /\ timerId' = [timerId EXCEPT ![r] = IF hedge THEN "armed" ELSE "unset"]
                    /\ UNCHANGED <<tokens, lastCall, thenLog, okWins, trackerVars, result, winner, isHedged,
                                   stillHasBudget, abortReason, primaryAborted,
                                   speculativeAborted>>

Start(r) == StartFrom(r, Requests, SignalChoices, Timeouts)

primaryThenMutClassifyFirst(log) == log \o <<"handleResponse", "tracker.add">>
\* Lines 99-105: the .then callback records the latency (line 102), then
\* classifies the response (line 104).
primaryThen(log) == log \o <<"tracker.add", "handleResponse">>

\* Lines 98-105: the primary's response headers arrive.
PrimaryResponse(r) ==
    /\ primaryRequest[r].state = "inflight"
    /\ \E status \in Statuses, ms \in Latencies :
        LET tr == add(samples, currentP95, ms)
            cl == Bump(calls, r, "add")
        IN  /\ samples' = tr[1]
            /\ currentP95' = tr[2]
            /\ added' = Append(added, ms)
            /\ thenLog' = [thenLog EXCEPT ![r] = primaryThen(@)]
            /\ IF accepted(status)
               THEN /\ stillHasBudget' = stillHasBudget
                    /\ afterAwait(r, Fulfilled(status), speculativeRequest[r], tokens, cl,
                                  timerId[r], globalTimeoutId[r])
               ELSE primaryRejects(r, "RetryableHTTPError", speculativeRequest[r], cl,
                                   timerId[r], globalTimeoutId[r])
    /\ UNCHANGED <<lastCall, opts, abortReason, waitToHedgeMs, sentKey>>

\* Line 98: the transport fails (no response, so the .then is skipped).
PrimaryFail(r) ==
    /\ primaryRequest[r].state = "inflight"
    /\ primaryRejects(r, "NetworkError", speculativeRequest[r], calls,
                      timerId[r], globalTimeoutId[r])
    /\ UNCHANGED <<lastCall, thenLog, trackerVars, opts, abortReason, waitToHedgeMs, sentKey>>

\* Line 121: the adaptive-delay timer fires.
TimerFire(r) ==
    /\ timerId[r] = "armed"
    /\ LET w == wake(r, speculativeRequest[r], tokens, calls)
       IN  /\ stillHasBudget' = [stillHasBudget EXCEPT ![r] = w[2]]
           /\ afterAwait(r, primaryRequest[r], w[1], tokens, w[3], "fired",
                         globalTimeoutId[r])
    /\ UNCHANGED <<lastCall, thenLog, trackerVars, opts, abortReason, waitToHedgeMs, sentKey>>

\* The composed signals of lines 61-76 exist only when the caller gave a signal.
scopeLinked(r) == opts[r].signal # "none"

\* An abort of the composed signal reaches both fetches.
scopeAborts(r, reason, gid) ==
    LET p == primaryRequest[r]
        s == abortAttempt(speculativeRequest[r], reason)
    IN  /\ abortReason' = [abortReason EXCEPT ![r] = reason]
        /\ IF p.state = "inflight"
           THEN primaryRejects(r, reason, s, calls, timerId[r], gid)
           ELSE /\ stillHasBudget' = stillHasBudget
                /\ afterAwait(r, p, s, tokens, calls, timerId[r], gid)

\* The caller aborts its signal while the race is in progress.
UserAbort(r) ==
    /\ call[r] = "pending"
    /\ opts[r].signal = "live"
    /\ abortReason[r] = "none"
    /\ scopeAborts(r, "userReason", globalTimeoutId[r])
    /\ UNCHANGED <<lastCall, thenLog, trackerVars, opts, waitToHedgeMs, sentKey>>

\* Lines 90-94: the deadline timer fires.
DeadlineFire(r) ==
    /\ globalTimeoutId[r] = "armed"
    /\ IF scopeLinked(r) /\ abortReason[r] = "none"
       THEN scopeAborts(r, "timeoutReason", "fired")
       ELSE /\ abortReason' = abortReason
            /\ stillHasBudget' = stillHasBudget
            /\ afterAwait(r, primaryRequest[r], speculativeRequest[r], tokens, calls,
                          timerId[r], "fired")
    /\ UNCHANGED <<lastCall, thenLog, trackerVars, opts, waitToHedgeMs, sentKey>>

\* The reason speculativeSignal is already aborted with, "none" if it is not.
speculativeSignalReason(r) ==
    IF scopeLinked(r) /\ abortReason[r] # "none" THEN abortReason[r]
    ELSE IF speculativeAborted[r] THEN "AbortError"
    ELSE "none"

\* Lines 127-141: the canHedge() answer arrives.
SpecContinue(r) ==
    /\ speculativeRequest[r].state = "awaitBudget"
    /\ IF ~stillHasBudget[r]
       THEN \* line 131: a promise that never settles
            /\ sentKey' = sentKey
            /\ afterAwait(r, primaryRequest[r], Unsettled("withdrawn"), tokens, calls,
                          timerId[r], globalTimeoutId[r])
       ELSE \E hookThrows \in BOOLEAN :
            LET cl1 == Bump(calls, r, "onHedge")
                cl2 == Bump(Bump(cl1, r, "consumeHedge"), r, "fetchSpeculative")
                why == speculativeSignalReason(r)
            IN  IF hookThrows
                THEN /\ sentKey' = sentKey
                     /\ afterAwait(r, primaryRequest[r], Rejected("hookError"), tokens, cl1,
                                   timerId[r], globalTimeoutId[r])
                ELSE \* hedgeHeaders = new Headers(headers)
                     /\ sentKey' = [sentKey EXCEPT ![r].speculative = sentKey[r].primary]
                     /\ afterAwait(r, primaryRequest[r],
                                   IF why = "none" THEN Unsettled("inflight") ELSE Rejected(why),
                                   consumeHedge(tokens), cl2, timerId[r], globalTimeoutId[r])
    /\ UNCHANGED <<lastCall, thenLog, trackerVars, opts, stillHasBudget, abortReason, waitToHedgeMs>>

\* Lines 141-142: the speculative attempt's response headers arrive.
SpecResponse(r) ==
    /\ speculativeRequest[r].state = "inflight"
    /\ \E status \in Statuses :
        afterAwait(r, primaryRequest[r],
                   IF accepted(status) THEN Fulfilled(status)
                   ELSE Rejected("RetryableHTTPError"),
                   tokens, calls, timerId[r], globalTimeoutId[r])
    /\ UNCHANGED <<lastCall, thenLog, trackerVars, opts, stillHasBudget, abortReason, waitToHedgeMs, sentKey>>

\* Line 141: the speculative attempt's transport fails.
SpecFail(r) ==
    /\ speculativeRequest[r].state = "inflight"
    /\ afterAwait(r, primaryRequest[r], Rejected("NetworkError"), tokens, calls,
                  timerId[r], globalTimeoutId[r])
    /\ UNCHANGED <<lastCall, thenLog, trackerVars, opts, stillHasBudget, abortReason, waitToHedgeMs, sentKey>>

\* Every event of a started race.
RaceRun(r) ==
    \/ PrimaryResponse(r)
    \/ PrimaryFail(r)
    \/ TimerFire(r)
    \/ UserAbort(r)
    \/ DeadlineFire(r)
    \/ SpecContinue(r)
    \/ SpecResponse(r)
    \/ SpecFail(r)

RaceStep(r) == Start(r) \/ RaceRun(r)

Next == \E r \in Races : RaceStep(r)

Spec == Init /\ [][Next]_vars

\* One race, called with every combination of method and idempotency options.
StartHeaders(r) == StartFrom(r, HeaderRequests, SignalChoices, Timeouts)
HeaderNext == StartHeaders(1) \/ RaceRun(1)
HeaderSpec == Init /\ [][HeaderNext]_vars

\* ------------------------------------ many races on a new local bucket
MaxResponses == 21
FreshRequests == {<<"GET", FALSE, FALSE, "none">>}

FreshInit == Init /\ tokens = 0

\* fetch() is called again, without a signal or a timeout (until MaxResponses
\* primaries have answered).
StartFresh(r) ==
    /\ Len(added) < MaxResponses
    /\ StartFrom(r, FreshRequests, {"none"}, {0})

\* A call that is over, with nothing of it left to run, is forgotten: its state
\* was local to the call (lines 28-95).
Forget(r) ==
    /\ call[r] \in {"returned", "threw"}
    /\ primaryRequest[r].state # "inflight"
    /\ speculativeRequest[r].state \notin {"waiting", "awaitBudget", "inflight"}
    /\ opts' = [opts EXCEPT ![r] = NoOpts]
    /\ call' = [call EXCEPT ![r] = "idle"]
    /\ result' = [result EXCEPT ![r] = "none"]
    /\ winner' = [winner EXCEPT ![r] = "none"]
    /\ isHedged' = [isHedged EXCEPT ![r] = FALSE]
    /\ primaryRequest' = [primaryRequest EXCEPT ![r] = Unsettled("none")]
    /\ speculativeRequest' = [speculativeRequest EXCEPT ![r] = Unsettled("absent")]
    /\ stillHasBudget' = [stillHasBudget EXCEPT ![r] = FALSE]
    /\ abortReason' = [abortReason EXCEPT ![r] = "none"]
    /\ primaryAborted' = [primaryAborted EXCEPT ![r] = FALSE]
    /\ speculativeAborted' = [speculativeAborted EXCEPT ![r] = FALSE]
    /\ timerId' = [timerId EXCEPT ![r] = "unset"]
    /\ globalTimeoutId' = [globalTimeoutId EXCEPT ![r] = "unset"]
    /\ waitToHedgeMs' = [waitToHedgeMs EXCEPT ![r] = 0]
    /\ sentKey' = [sentKey EXCEPT ![r] = NoneSent]
    /\ calls' = [calls EXCEPT ![r] = [o \in Ops |-> 0]]
    /\ thenLog' = [thenLog EXCEPT ![r] = <<>>]
    /\ UNCHANGED <<tokens, trackerVars, lastCall, okWins>>

\* The events of a race called without a signal or a timeout.
FreshRun(r) ==
    \/ PrimaryResponse(r)
    \/ PrimaryFail(r)
    \/ TimerFire(r)
    \/ SpecContinue(r)
    \/ SpecResponse(r)
    \/ SpecFail(r)

FreshNext == \E r \in Races : StartFresh(r) \/ FreshRun(r) \/ Forget(r)
FreshSpec == FreshInit /\ [][FreshNext]_vars

\* --------------------------------------------- the bucket used on its own
\* A caller that keeps the contract of part_000 lines 15-17: consumeHedge()
\* only right after a canHedge() that answered true.
BucketCanHedge ==
    /\ lastCall' = IF canHedge(tokens) THEN "canHedge:true" ELSE "canHedge:false"
    /\ UNCHANGED <<tokens, trackerVars, raceVars>>

BucketConsumeHedge ==
    /\ lastCall = "canHedge:true"
    /\ tokens' = consumeHedge(tokens)
    /\ lastCall' = "consumeHedge"
    /\ UNCHANGED <<trackerVars, raceVars>>

BucketInc ==
    /\ tokens' = inc(tokens)
    /\ lastCall' = "inc"
    /\ UNCHANGED <<trackerVars, raceVars>>

BucketNext == BucketCanHedge \/ BucketConsumeHedge \/ BucketInc
BucketSpec == Init /\ [][BucketNext]_vars

\* -------------------------------------------- the tracker used on its own
TrackerInit ==
    /\ tokens = 0
    /\ \E seed \in TrackerSeeds :
        /\ added = seed
        /\ samples = replay(seed)[1]
        /\ currentP95 = replay(seed)[2]
    /\ lastCall = "none"
    /\ RacesIdle

\* At most MaxAdds samples are added to the window the tracker started from.
mayAdd ==
    \E seed \in TrackerSeeds :
        /\ Len(seed) <= Len(added)
        /\ Len(added) < Len(seed) + MaxAdds
        /\ SubSeq(added, 1, Len(seed)) = seed

\* Lines 208-216: add(ms).
TrackerAdd ==
    /\ mayAdd
    /\ \E ms \in TrackerLatencies :
        LET tr == add(samples, currentP95, ms)
        IN  /\ samples' = tr[1]
            /\ currentP95' = tr[2]
            /\ added' = Append(added, ms)
    /\ UNCHANGED <<tokens, lastCall, raceVars>>

TrackerNext == TrackerAdd
TrackerSpec == TrackerInit /\ [][TrackerNext]_vars
\* ------------------------------------------------------------ the claims
Retryable == {"RetryableHTTPError", "NetworkError"}
Live == {"waiting", "awaitBudget", "inflight"}
Status2xx == 200..299
Status4xx == 400..499

\* Race r has gone as far as it will: fetch() is over, or no event of the
\* race can happen any more.
Quiet(r) == call[r] # "pending" \/ ~ENABLED RaceStep(r)

Started(r) == call[r] # "idle" /\ opts[r].signal # "aborted"

\* C1: once the speculative branch is withdrawn (canHedge() was false on
\* wake), the race settles on the primary alone: an accepted primary is
\* returned, and after a retryable primary failure the race ends with the
\* aggregated ServiceUnavailable error rather than staying pending.
C1_WithdrawnSettlesOnPrimary ==
    \A r \in Races :
        speculativeRequest[r].state = "withdrawn" =>
            /\ primaryRequest[r].state = "fulfilled" =>
                   (call[r] = "returned" /\ result[r] = "primary")
            /\ (/\ primaryRequest[r].state = "rejected"
                /\ primaryRequest[r].error \in Retryable
                /\ Quiet(r)) =>
                   (call[r] = "threw" /\ result[r] = "ServiceUnavailable")

\* C2: with races running concurrently against one bucket, the token level
\* is never below zero.
C2_TokensNeverNegative == tokens >= 0

\* C3: once the deadline has fired (the caller not having cancelled first),
\* no attempt is left in flight and the race fails with the timeout error,
\* with or without a caller signal, hedged or not, whatever the budget.
C3_DeadlineFailsWithTimeout ==
    \A r \in Races :
        (globalTimeoutId[r] = "fired" /\ abortReason[r] # "userReason") =>
            /\ primaryRequest[r].state # "inflight"
            /\ speculativeRequest[r].state # "inflight"
            /\ Quiet(r) => (call[r] = "threw" /\ result[r] = "timeoutReason")

\* C4: once the caller's signal has fired during a race, no attempt is left
\* in flight and the race fails with exactly the caller's reason: never with
\* ServiceUnavailable, never pending for ever.
C4_CancelFailsWithReason ==
    \A r \in Races :
        abortReason[r] = "userReason" =>
            /\ primaryRequest[r].state # "inflight"
            /\ speculativeRequest[r].state # "inflight"
            /\ Quiet(r) => (call[r] = "threw" /\ result[r] = "userReason")

\* C5: the race is decided by the first accepted outcome (2xx or 4xx), not by
\* the first branch to finish: an accepted outcome is the winner at once and
\* is the only one, a race fails without a winner only when no branch is left
\* live, and after a retryable primary failure the speculative branch is no
\* longer waiting on its timer, so that its accepted outcome makes the race a
\* SpeculativeWin.
C5_FirstAcceptedWins ==
    \A r \in Races :
        LET p == primaryRequest[r]
            s == speculativeRequest[r]
        IN  /\ ~(p.state = "fulfilled" /\ s.state = "fulfilled")
            /\ p.state = "fulfilled" =>
                   (winner[r] = "primary" /\ p.status \in Status2xx \cup Status4xx)
            /\ s.state = "fulfilled" =>
                   (winner[r] = "speculative" /\ s.status \in Status2xx \cup Status4xx)
            /\ winner[r] = "primary" => p.state = "fulfilled"
            /\ winner[r] = "speculative" => s.state = "fulfilled"
            /\ call[r] = "returned" => result[r] = winner[r] /\ winner[r] # "none"
            /\ (call[r] = "threw" /\ winner[r] = "none" /\ Started(r)) =>
                   /\ p.state = "rejected" /\ p.error # "AbortError"
                   /\ s.state \notin Live
                   /\ s.state = "rejected" => s.error # "AbortError"
            /\ (p.state = "rejected" /\ p.error \in Retryable) => s.state # "waiting"

\* C5 witness: the primary failed at the transport, the speculative branch was
\* woken while its timer was still armed (the timer never fired), and its
\* accepted response won the race.
C5_Witness ==
    \E r \in Races :
        /\ winner[r] = "speculative"
        /\ primaryRequest[r].error = "NetworkError"
        /\ timerId[r] = "cleared"
        /\ call[r] = "returned"

\* C6: when every live branch has ended in a retryable failure the race fails
\* with the aggregated ServiceUnavailable error, in a primary-only race too.
C6_AllFailedIsServiceUnavailable ==
    \A r \in Races :
        LET p == primaryRequest[r]
            s == speculativeRequest[r]
        IN  (/\ p.state = "rejected" /\ p.error \in Retryable
             /\ \/ s.state = "absent"
                \/ s.state = "rejected" /\ s.error \in Retryable) =>
                (call[r] = "threw" /\ result[r] = "ServiceUnavailable")

\* C7: a speculative attempt is dispatched only for GET, HEAD, OPTIONS or
\* under forceHedge; a race with an unsafe method and no forceHedge dispatches
\* the primary alone, never invokes onHedge, never consults or debits the
\* budget, and is over exactly when the primary has settled, with no winner
\* but the primary.
C7_UnsafeMethodIsPrimaryOnly ==
    \A r \in Races :
        LET safe == opts[r].method \in {"GET", "HEAD", "OPTIONS"}
            p == primaryRequest[r]
        IN  /\ calls[r]["fetchSpeculative"] > 0 => (safe \/ opts[r].forceHedge)
            /\ (Started(r) /\ ~safe /\ ~opts[r].forceHedge) =>
                   /\ calls[r]["fetchPrimary"] = 1
                   /\ calls[r]["fetchSpeculative"] = 0
                   /\ calls[r]["onHedge"] = 0
                   /\ calls[r]["canHedge"] = 0
                   /\ calls[r]["consumeHedge"] = 0
                   /\ speculativeRequest[r].state = "absent"
                   /\ timerId[r] = "unset"
                   /\ (call[r] # "pending") <=> (p.state \in {"fulfilled", "rejected"})
                   /\ (winner[r] = "primary") <=> (p.state = "fulfilled")
                   /\ winner[r] # "speculative"

\* C7 witness: an unforced POST race is over with the primary's response
\* while the budget held a token the whole time.
C7_Witness ==
    \E r \in Races :
        /\ opts[r].method = "POST" /\ ~opts[r].forceHedge
        /\ call[r] = "returned" /\ result[r] = "primary"
        /\ tokens >= hedgeCost

\* C8: per race at most one speculative dispatch, each with exactly one
\* onHedge invocation and one debit; a branch that woke to a budget of at
\* least one token dispatches; without a dispatch no onHedge and no debit.
C8_OneHedgeOneDebit ==
    \A r \in Races :
        /\ calls[r]["fetchSpeculative"] <= 1
        /\ calls[r]["onHedge"] = calls[r]["fetchSpeculative"]
        /\ calls[r]["consumeHedge"] = calls[r]["fetchSpeculative"]
        /\ (stillHasBudget[r] /\ speculativeRequest[r].state \notin {"absent", "waiting", "awaitBudget"}) =>
               calls[r]["fetchSpeculative"] = 1

\* C9: inc() is applied once in a race whose winner is the primary with a 2xx
\* status and never otherwise (4xx winner, speculative winner, failure,
\* timeout, cancellation), and it raises the level by 0.05 capped at 10;
\* nothing else raises the level.
C9_RewardOnlyPrimary2xx ==
    /\ [](\A r \in Races :
            calls[r]["inc"] =
                IF winner[r] = "primary" /\ primaryRequest[r].status \in Status2xx
                THEN 1 ELSE 0)
    /\ [][/\ \A r \in Races :
                calls'[r]["inc"] # calls[r]["inc"] =>
                    tokens' = (IF tokens + 5 > 1000 THEN 1000 ELSE tokens + 5)
          /\ tokens' > tokens => \E r \in Races : calls'[r]["inc"] = calls[r]["inc"] + 1]_vars

\* C9 witness: one race won by the primary with 404 (no reward), the other by
\* the primary with 200 (rewarded).
C9_Witness ==
    \E r, q \in Races :
        /\ winner[r] = "primary" /\ primaryRequest[r].status = 404 /\ calls[r]["inc"] = 0
        /\ winner[q] = "primary" /\ primaryRequest[q].status = 200 /\ calls[q]["inc"] = 1

\* C10: fetch() called with an already aborted signal throws the signal's
\* reason at once and does nothing else: nothing dispatched, no timer armed,
\* no hook or bucket or tracker call, tracker and budget untouched.
C10_PreAbortedDoesNothing ==
    /\ [](\A r \in Races :
            opts[r].signal = "aborted" =>
                /\ call[r] = "threw" /\ result[r] = "userReason"
                /\ \A o \in Ops : calls[r][o] = 0
                /\ primaryRequest[r].state = "none"
                /\ speculativeRequest[r].state = "absent"
                /\ timerId[r] = "unset" /\ globalTimeoutId[r] = "unset"
                /\ winner[r] = "none")
    /\ [][\A r \in Races :
            (call[r] = "idle" /\ opts'[r].signal = "aborted") =>
                /\ tokens' = tokens
                /\ samples' = samples
                /\ currentP95' = currentP95
                /\ calls' = calls]_vars

\* C10 witness: a race refused for its aborted signal beside a race that ran.
C10_Witness ==
    \E r, q \in Races :
        /\ opts[r].signal = "aborted" /\ call[r] = "threw"
        /\ call[q] = "returned"

\* C11: an exception thrown by a hook never changes the race: the accepted
\* response of the winner is still returned, an onHedge invocation is still
\* followed by the debit and the speculative dispatch, and the reward and the
\* loser's cancellation are applied as usual.
C11_HookThrowChangesNothing ==
    \A r \in Races :
        /\ result[r] # "hookError"
        /\ speculativeRequest[r].error # "hookError"
        /\ winner[r] # "none" => (call[r] = "returned" /\ result[r] = winner[r])
        /\ calls[r]["onHedge"] = 1 =>
               (calls[r]["consumeHedge"] = 1 /\ calls[r]["fetchSpeculative"] = 1)
        /\ winner[r] = "primary" =>
               /\ speculativeAborted[r]
               /\ primaryRequest[r].status \in Status2xx => calls[r]["inc"] = 1
        /\ winner[r] = "speculative" => primaryAborted[r]

\* C12: for every unsafe method with autoIdempotency set and no key supplied,
\* a generated key is attached before dispatch and both attempts carry it; a
\* caller's key is never overwritten; without autoIdempotency no key is
\* generated.
C12_IdempotencyKeyOnUnsafe ==
    \A r \in Races :
        LET unsafe == opts[r].method \notin {"GET", "HEAD", "OPTIONS"}
            k == sentKey[r]
        IN  Started(r) =>
                /\ (unsafe /\ opts[r].autoIdempotency /\ opts[r].idempotencyKey = "none") =>
                       k.primary = "generated"
                /\ k.speculative # "unsent" => k.speculative = k.primary
                /\ opts[r].idempotencyKey = "caller" => k.primary = "caller"
                /\ ~opts[r].autoIdempotency => k.primary # "generated"

\* C13: once fetch() has returned or thrown, neither timer of the race is
\* armed, no attempt of the race is in flight, and the loser has been
\* cancelled: the speculative controller after a primary win, the primary
\* controller after a speculative win, both after a failure.
C13_NothingOutstanding ==
    \A r \in Races :
        (Started(r) /\ call[r] \in {"returned", "threw"}) =>
            /\ timerId[r] # "armed"
            /\ globalTimeoutId[r] # "armed"
            /\ primaryRequest[r].state # "inflight"
            /\ speculativeRequest[r].state # "inflight"
            /\ (call[r] = "returned" /\ winner[r] = "primary") => speculativeAborted[r]
            /\ (call[r] = "returned" /\ winner[r] = "speculative") => primaryAborted[r]
            /\ call[r] = "threw" => (primaryAborted[r] /\ speculativeAborted[r])

\* C13 witness: the primary won while the speculative attempt was in flight
\* and the deadline was armed: the attempt was aborted, the deadline cleared.
C13_Witness ==
    \E r \in Races :
        /\ call[r] = "returned" /\ winner[r] = "primary"
        /\ speculativeRequest[r].error = "AbortError"
        /\ calls[r]["fetchSpeculative"] = 1
        /\ timerId[r] = "fired"
        /\ globalTimeoutId[r] = "cleared"

\* C14: the response carries the isHedged marker exactly when the speculative
\* attempt produced it, and exactly the winner's hook is invoked, once:
\* onPrimaryWin and no marker for a primary winner, onSpeculativeWin and the
\* marker for a speculative winner, never both, no winner hook in a race
\* without a winner.
C14_MarkerAndHookMatchWinner ==
    \A r \in Races :
        /\ isHedged[r] <=> (winner[r] = "speculative")
        /\ call[r] = "returned" =>
               /\ result[r] \in {"primary", "speculative"}
               /\ isHedged[r] <=> (result[r] = "speculative")
               /\ calls[r]["onPrimaryWin"] + calls[r]["onSpeculativeWin"] = 1
        /\ calls[r]["onPrimaryWin"] = (IF winner[r] = "primary" THEN 1 ELSE 0)
        /\ calls[r]["onSpeculativeWin"] = (IF winner[r] = "speculative" THEN 1 ELSE 0)

\* C14 witness: one race returned the primary's response unmarked, the other
\* the speculative response marked.
C14_Witness ==
    \E r, q \in Races :
        /\ call[r] = "returned" /\ result[r] = "primary" /\ ~isHedged[r]
        /\ calls[r]["onPrimaryWin"] = 1 /\ calls[r]["onSpeculativeWin"] = 0
        /\ call[q] = "returned" /\ result[q] = "speculative" /\ isHedged[q]
        /\ calls[q]["onSpeculativeWin"] = 1 /\ calls[q]["onPrimaryWin"] = 0

\* C15: used on its own by a caller that calls consumeHedge() only right after
\* a canHedge() that answered true, the bucket keeps its level within
\* [0, maxTokens] (0 to 10 tokens): inc() never lifts it above the maximum and
\* such a consumeHedge() never takes it below zero.
C15_LevelStaysInRange ==
    /\ 0 <= tokens
    /\ tokens <= maxTokens
    /\ lastCall = "consumeHedge" => tokens <= maxTokens - hedgeCost

\* C15 witness: a checked consumeHedge() has just taken the last whole token.
C15_Witness == lastCall = "consumeHedge" /\ tokens = 0

\* The sample of ascending rank k (from 0) in window w: the least sample
\* that more than k samples of the window do not exceed.
valueOfRank(w, k) ==
    LET enough == {v \in {w[i] : i \in DOMAIN w} :
                      Cardinality({i \in DOMAIN w : w[i] <= v}) > k}
    IN  CHOOSE v \in enough : \A u \in enough : v <= u

\* C16: after every add(), with n the window length and raw the sample of
\* rank max(0, floor(0.95 n) - 1) of the sorted window: for n < 5 the estimate
\* is unchanged and the wait time is still 150; for 5 <= n < 20 the estimate
\* is raw; for n >= 20 it is 0.8 * previous estimate + 0.2 * raw.  Five samples
\* of 100 given to a new tracker make getWaitTime() 100.
C16_TwoPhaseEstimate ==
    /\ [][added' # added =>
            LET n == Len(samples')
                raw == valueOfRank(samples', Max(0, ((95 * n) \div 100) - 1))
            IN  /\ n < 5 => /\ currentP95' = currentP95
                            /\ getWaitTime(currentP95') = initialP95
                /\ (5 <= n /\ n < 20) => /\ currentP95'.num = raw * currentP95'.den
                                         /\ getWaitTime(currentP95') = Max(minFloor, raw)
                /\ n >= 20 => 5 * currentP95'.num * currentP95.den
                              = (4 * currentP95.num + raw * currentP95.den)
                                * currentP95'.den]_vars
    /\ [](added = <<100, 100, 100, 100, 100>> => getWaitTime(currentP95) = 100)

\* C16 witness: the twentieth sample moved the raw percentile from 100 to 200
\* and the estimate from 100 to 0.8 * 100 + 0.2 * 200 = 120.
C16_Witness ==
    /\ Len(samples) = 20
    /\ added = [i \in 1..20 |-> IF i >= 19 THEN 200 ELSE 100]
    /\ currentP95 = Rat(120)
    /\ getWaitTime(currentP95) = 120

\* C17: the window never holds more than 100 samples, and it is always the
\* last min(k, 100) of the k samples added so far, in the order they were
\* added: a full window loses exactly its oldest sample at each add().
C17_WindowIsLastAdded ==
    /\ Len(samples) <= maxSamples
    /\ Len(samples) = Min(Len(added), maxSamples)
    /\ \A i \in 1..Len(samples) :
           samples[i] = added[Len(added) - Len(samples) + i]

\* C17 witness: three samples were added to a window of 99, so two have been
\* evicted, and the newest two are kept in order.
C17_Witness ==
    /\ Len(added) = maxSamples + 2
    /\ Len(samples) = maxSamples
    /\ samples[maxSamples - 1] = 50
    /\ samples[maxSamples] = 200

\* The primary's response headers arrived (with any status).
headersArrived(r) ==
    \/ primaryRequest[r].state = "fulfilled"
    \/ primaryRequest[r].error = "RetryableHTTPError"

\* C18 as stated: every primary attempt that ended otherwise than by
\* cancellation (2xx, 4xx, 5xx or transport failure) added exactly one sample,
\* before its outcome was classified.
C18_EveryOutcomeAddsOnce ==
    \A r \in Races :
        (headersArrived(r) \/ primaryRequest[r].error = "NetworkError") =>
            /\ calls[r]["add"] = 1
            /\ thenLog[r] = <<"tracker.add", "handleResponse">>

\* C18: every primary attempt whose response headers arrive (2xx, 3xx, 4xx or
\* 5xx) adds exactly one sample, and adds it before the response is classified
\* as accepted or retryable failure; a primary attempt that ends in a
\* transport failure or is cancelled adds none; a speculative attempt never
\* adds one.
C18_HeadersAddOnceBeforeClassified ==
    /\ \A r \in Races :
        IF headersArrived(r)
        THEN /\ calls[r]["add"] = 1
             /\ thenLog[r] = <<"tracker.add", "handleResponse">>
        ELSE /\ calls[r]["add"] = 0
             /\ thenLog[r] = <<>>
    /\ Len(added) = Cardinality({r \in Races : headersArrived(r)})

\* C18 witness: one race's primary answered 503 and its speculative attempt
\* then answered, with one sample from that race; the other race's primary
\* failed in the transport and left none.
C18_Witness ==
    \E r, q \in Races :
        /\ primaryRequest[r].error = "RetryableHTTPError"
        /\ speculativeRequest[r].state = "fulfilled"
        /\ calls[r]["add"] = 1
        /\ primaryRequest[q].error = "NetworkError"
        /\ calls[q]["add"] = 0
        /\ Len(added) = 1

\* The race has settled, or the caller's cancellation or the deadline has fired.
overOrAborted(r) ==
    \/ call[r] \in {"returned", "threw"}
    \/ abortReason[r] # "none"
    \/ globalTimeoutId[r] = "fired"

\* C19: once a race is over or aborted, it never invokes onHedge, never debits
\* a hedge token and never hands a speculative attempt to the transport.
C19_NoDispatchOnceOver ==
    [][\A r \in Races :
           overOrAborted(r) =>
               /\ calls'[r]["onHedge"] = calls[r]["onHedge"]
               /\ calls'[r]["consumeHedge"] = calls[r]["consumeHedge"]
               /\ calls'[r]["fetchSpeculative"] = calls[r]["fetchSpeculative"]]_vars

\* C20: on a new local bucket (level 0), until 20 races have settled with the
\* primary as winner and a 2xx status, no race invokes onHedge, debits a token
\* or dispatches a speculative attempt: every canHedge() answer is false and
\* every speculative branch that woke is withdrawn or about to be.
C20_NoHedgeBeforeTwentyWins ==
    okWins < 20 =>
        /\ tokens = gainPerRequest * okWins
        /\ \A r \in Races :
            /\ calls[r]["onHedge"] = 0
            /\ calls[r]["consumeHedge"] = 0
            /\ calls[r]["fetchSpeculative"] = 0
            /\ ~stillHasBudget[r]
            /\ speculativeRequest[r].state \in {"absent", "waiting", "awaitBudget", "withdrawn"}

\* C20 witness: after exactly 20 such wins a race spends the one token earned
\* and dispatches its speculative attempt.
C20_Witness ==
    /\ okWins = 20
    /\ tokens = 0
    /\ \E r \in Races :
        /\ calls[r]["onHedge"] = 1
        /\ calls[r]["consumeHedge"] = 1
        /\ calls[r]["fetchSpeculative"] = 1
        /\ speculativeRequest[r].state = "inflight"
====
